---- MODULE Spec2Model ----
(***************************************************************************)
(* Model of IntervalTree<T> (Data_Structures/IntervalTree/IntervalTree.h): *)
(* an augmented binary search tree of closed intervals keyed on low, with  *)
(* AVL-style rotations on insertion.  T is modelled by the integers        *)
(* 0..MaxVal, a shared_ptr<T> payload by an element of Payloads.           *)
(***************************************************************************)
EXTENDS Integers, Sequences, FiniteSets

\* ---- bounds of the model -------------------------------------------------
MaxVal == 2        \* interval bounds and query values range over 0..MaxVal
MaxNodes == 4      \* Insert is taken only while the tree has fewer nodes
MaxDrift == 1      \* cap on (number of nodes - size) that Remove may produce
MaxPayload == 0    \* payloads are 0..MaxPayload, 0 standing for a null shared_ptr<T>

Values == 0 .. MaxVal
Payloads == 0 .. MaxPayload

\* ---- data model ----------------------------------------------------------
\* the absent node (a null shared_ptr<Node<T>>)
nullptr == [null |-> TRUE]

\* outcome of dereferencing a null node pointer inside a rotation
Segv == [segv |-> TRUE]

\* struct Interval: any pair can be constructed, low > high included
Interval(l, h) == [low |-> l, high |-> h]

AllIntervals == {Interval(l, h) : l \in Values, h \in Values}

ValidIntervals == {i \in AllIntervals : i.low <= i.high}

\* Remove reads only i.low: one argument per low bound
PointIntervals == {Interval(l, l) : l \in Values}

\* replacement intervals drawn by Update: one valid interval per low bound
\* and one with low > high
UpdateIntervals == {Interval(l, MaxVal) : l \in Values} \cup {Interval(MaxVal, 0)}

\* struct Node, as built by its constructor: max = i.high, no children
Node(i, d) == [interval |-> i, max |-> i.high, left |-> nullptr, right |-> nullptr, data |-> d]

Max(a, b) == IF a >= b THEN a ELSE b

VARIABLES Root, size, thrown, fault, last

vars == <<Root, size, thrown, fault, last>>

\* ---- private helpers -----------------------------------------------------
\* UpdateMax as it would be without the right-child comparison
UpdateMax_LeftOnly(node) ==
  IF node = nullptr THEN node
  ELSE LET m0 == node.interval.high
           m1 == IF node.left # nullptr THEN Max(m0, node.left.max) ELSE m0
       IN [node EXCEPT !.max = m1]

UpdateMax(node) ==
  IF node = nullptr THEN node
  ELSE LET m0 == node.interval.high
           m1 == IF node.left # nullptr THEN Max(m0, node.left.max) ELSE m0
           m2 == IF node.right # nullptr THEN Max(m1, node.right.max) ELSE m1
       IN [node EXCEPT !.max = m2]

RECURSIVE Height(_)
Height(node) ==
  IF node = nullptr THEN 0
  ELSE 1 + Max(Height(node.left), Height(node.right))

GetBalance(node) ==
  IF node = nullptr THEN 0
  ELSE Height(node.left) - Height(node.right)

\* newRoot = node->left; newRoot->right is read through a null pointer when
\* node has no left child
RotateRight(node) ==
  IF node = Segv \/ node.left = nullptr THEN Segv
  ELSE LET newRoot == node.left
           old == UpdateMax([node EXCEPT !.left = newRoot.right])
       IN UpdateMax([newRoot EXCEPT !.right = old])

RotateLeft(node) ==
  IF node = Segv \/ node.right = nullptr THEN Segv
  ELSE LET newRoot == node.right
           old == UpdateMax([node EXCEPT !.right = newRoot.left])
       IN UpdateMax([newRoot EXCEPT !.left = old])

\* which branch of the rebalancing code of Insert is taken at node
RebalanceCase(node, i) ==
  LET balance == GetBalance(node)
  IN IF balance > 1
     THEN (IF i.low < node.left.interval.low THEN "LL" ELSE "LR")
     ELSE IF balance < -1
          THEN (IF i.low > node.right.interval.low THEN "RR" ELSE "RL")
          ELSE "none"

\* rebalancing with a single rotation in the left-right and right-left cases
Rebalance_SingleRotation(node, i) ==
  LET c == RebalanceCase(node, i)
  IN CASE c \in {"LL", "LR"} -> RotateRight(node)
       [] c \in {"RR", "RL"} -> RotateLeft(node)
       [] OTHER -> node

\* the rebalancing code of Insert, applied after UpdateMax(node)
Rebalance(node, i) ==
  LET c == RebalanceCase(node, i)
  IN CASE c = "LL" -> RotateRight(node)
       [] c = "LR" -> LET l == RotateLeft(node.left)
                      IN IF l = Segv THEN Segv
                         ELSE RotateRight([node EXCEPT !.left = l])
       [] c = "RR" -> RotateLeft(node)
       [] c = "RL" -> LET r == RotateRight(node.right)
                      IN IF r = Segv THEN Segv
                         ELSE RotateLeft([node EXCEPT !.right = r])
       [] OTHER -> node

RECURSIVE Insert(_, _, _)
Insert(node, i, data) ==
  IF node = nullptr THEN Node(i, data)
  ELSE LET goLeft == i.low < node.interval.low
           sub == IF goLeft THEN Insert(node.left, i, data)
                            ELSE Insert(node.right, i, data)
       IN IF sub = Segv THEN Segv
          ELSE LET n1 == IF goLeft THEN [node EXCEPT !.left = sub]
                                   ELSE [node EXCEPT !.right = sub]
               IN Rebalance(UpdateMax(n1), i)

RECURSIVE FindMin(_)
FindMin(node) ==
  IF node # nullptr /\ node.left # nullptr THEN FindMin(node.left) ELSE node

RECURSIVE Remove(_, _)
Remove(node, i) ==
  IF node = nullptr THEN nullptr
  ELSE IF i.low < node.interval.low
       THEN UpdateMax([node EXCEPT !.left = Remove(node.left, i)])
       ELSE IF i.low > node.interval.low
            THEN UpdateMax([node EXCEPT !.right = Remove(node.right, i)])
            ELSE IF node.left = nullptr THEN node.right
                 ELSE IF node.right = nullptr THEN node.left
                      ELSE LET minNode == FindMin(node.right)
                           IN UpdateMax([node EXCEPT
                                !.interval = minNode.interval,
                                !.data = minNode.data,
                                !.right = Remove(node.right, minNode.interval)])

\* ---- private query helpers -----------------------------------------------
\* the vector a query fills is modelled by the sequence of its emplace_back
\* calls, each entry a pair <<interval, payload>>
\* FindContaining pruning the left subtree on left.max > value
RECURSIVE FindContaining_StrictPrune(_, _)
FindContaining_StrictPrune(node, value) ==
  IF node = nullptr THEN <<>>
  ELSE (IF node.interval.low <= value /\ node.interval.high >= value
        THEN <<(<<node.interval, node.data>>)>> ELSE <<>>)
       \o (IF node.left # nullptr /\ node.left.max > value
           THEN FindContaining_StrictPrune(node.left, value) ELSE <<>>)
       \o FindContaining_StrictPrune(node.right, value)

RECURSIVE FindContaining(_, _)
FindContaining(node, value) ==
  IF node = nullptr THEN <<>>
  ELSE (IF node.interval.low <= value /\ node.interval.high >= value
        THEN <<(<<node.interval, node.data>>)>> ELSE <<>>)
       \o (IF node.left # nullptr /\ node.left.max >= value
           THEN FindContaining(node.left, value) ELSE <<>>)
       \o FindContaining(node.right, value)

\* FindOverlapping pruning the left subtree on the query's high bound
RECURSIVE FindOverlapping_PruneOnHigh(_, _, _)
FindOverlapping_PruneOnHigh(node, low, high) ==
  IF node = nullptr THEN <<>>
  ELSE (IF node.interval.low <= high /\ node.interval.high >= low
        THEN <<(<<node.interval, node.data>>)>> ELSE <<>>)
       \o (IF node.left # nullptr /\ node.left.max >= high
           THEN FindOverlapping_PruneOnHigh(node.left, low, high) ELSE <<>>)
       \o FindOverlapping_PruneOnHigh(node.right, low, high)

RECURSIVE FindOverlapping(_, _, _)
FindOverlapping(node, low, high) ==
  IF node = nullptr THEN <<>>
  ELSE (IF node.interval.low <= high /\ node.interval.high >= low
        THEN <<(<<node.interval, node.data>>)>> ELSE <<>>)
       \o (IF node.left # nullptr /\ node.left.max >= low
           THEN FindOverlapping(node.left, low, high) ELSE <<>>)
       \o FindOverlapping(node.right, low, high)

\* Contains pruning the left subtree on left.max > value
RECURSIVE ContainsNode_StrictPrune(_, _)
ContainsNode_StrictPrune(node, value) ==
  IF node = nullptr THEN FALSE
  ELSE IF node.interval.low <= value /\ node.interval.high >= value THEN TRUE
       ELSE IF node.left # nullptr /\ node.left.max > value
            THEN ContainsNode_StrictPrune(node.left, value)
            ELSE ContainsNode_StrictPrune(node.right, value)

RECURSIVE ContainsNode(_, _)
ContainsNode(node, value) ==
  IF node = nullptr THEN FALSE
  ELSE IF node.interval.low <= value /\ node.interval.high >= value THEN TRUE
       ELSE IF node.left # nullptr /\ node.left.max >= value
            THEN ContainsNode(node.left, value)
            ELSE ContainsNode(node.right, value)

\* Overlaps descending into the left subtree whenever there is one
RECURSIVE OverlapsNode_NoPrune(_, _, _)
OverlapsNode_NoPrune(node, low, high) ==
  IF node = nullptr THEN FALSE
  ELSE IF node.interval.low <= high /\ node.interval.high >= low THEN TRUE
       ELSE IF node.left # nullptr
            THEN OverlapsNode_NoPrune(node.left, low, high)
            ELSE OverlapsNode_NoPrune(node.right, low, high)

RECURSIVE OverlapsNode(_, _, _)
OverlapsNode(node, low, high) ==
  IF node = nullptr THEN FALSE
  ELSE IF node.interval.low <= high /\ node.interval.high >= low THEN TRUE
       ELSE IF node.left # nullptr /\ node.left.max >= low
            THEN OverlapsNode(node.left, low, high)
            ELSE OverlapsNode(node.right, low, high)

\* std::numeric_limits<T>::min() of the bounded integer type the model's
\* Values stand for: the least value an interval bound can take
TMin == 0

\* MaxHighOverlapping descending into one subtree only, as Contains does
RECURSIVE MaxHighOverlappingNode_OneSide(_, _, _, _)
MaxHighOverlappingNode_OneSide(node, low, high, maxValue) ==
  IF node = nullptr THEN maxValue
  ELSE LET own == IF node.interval.low <= high /\ node.interval.high >= low
                  THEN Max(maxValue, node.interval.high) ELSE maxValue
       IN  IF node.left # nullptr /\ node.left.max >= low
           THEN MaxHighOverlappingNode_OneSide(node.left, low, high, own)
           ELSE MaxHighOverlappingNode_OneSide(node.right, low, high, own)

\* maxValue is the T& accumulator: the value it holds when the call returns
RECURSIVE MaxHighOverlappingNode(_, _, _, _)
MaxHighOverlappingNode(node, low, high, maxValue) ==
  IF node = nullptr THEN maxValue
  ELSE LET own == IF node.interval.low <= high /\ node.interval.high >= low
                  THEN Max(maxValue, node.interval.high) ELSE maxValue
           afterLeft == IF node.left # nullptr /\ node.left.max >= low
                        THEN MaxHighOverlappingNode(node.left, low, high, own)
                        ELSE own
       IN  MaxHighOverlappingNode(node.right, low, high, afterLeft)

\* the two recursive calls name (node, min, max) and leave the accumulator
\* out: nothing a child subtree holds is appended to result
FindByMinMaxNode(node, min, max) ==
  IF node = nullptr THEN <<>>
  ELSE IF node.interval.high >= min /\ node.interval.low <= max
       THEN <<(<<node.interval, node.data>>)>> ELSE <<>>

\* ToString writing the node before its left subtree
RECURSIVE ToStringNode_PreOrder(_)
ToStringNode_PreOrder(node) ==
  IF node = nullptr THEN <<>>
  ELSE <<"[", node.interval.low, ", ", node.interval.high, "] ">>
         \o ToStringNode_PreOrder(node.left) \o ToStringNode_PreOrder(node.right)

\* the text written to oss, as the sequence of the pieces streamed into it
RECURSIVE ToStringNode(_)
ToStringNode(node) ==
  IF node = nullptr THEN <<>>
  ELSE ToStringNode(node.left)
         \o <<"[", node.interval.low, ", ", node.interval.high, "] ">>
         \o ToStringNode(node.right)

\* ---- public queries ------------------------------------------------------
Containing(value) == FindContaining(Root, value)

Overlapping(low, high) == FindOverlapping(Root, low, high)

Contains(value) == ContainsNode(Root, value)

Overlaps(low, high) == OverlapsNode(Root, low, high)

ToString == ToStringNode(Root)

MaxHighOverlapping(low, high) == MaxHighOverlappingNode(Root, low, high, TMin)

FindByMinMax(min, max) == FindByMinMaxNode(Root, min, max)

\* size holds the size_t counter by its representative modulo 2^64 nearest
\* to zero: a negative value v stands for the wrapped counter 2^64 + v
Size == size

IsEmpty == Root = nullptr

\* ---- observers used to state the properties -------------------------------
\* in-order list of the stored <<interval, payload>> pairs
RECURSIVE Items(_)
Items(node) ==
  IF node = nullptr THEN <<>>
  ELSE Items(node.left) \o <<(<<node.interval, node.data>>)>> \o Items(node.right)

NodeCount(node) == Len(Items(node))

\* the set of subtrees (one per reachable node)
RECURSIVE Subtrees(_)
Subtrees(node) ==
  IF node = nullptr THEN {}
  ELSE {node} \cup Subtrees(node.left) \cup Subtrees(node.right)

Range(s) == {s[k] : k \in DOMAIN s}

\* multiset of the entries of a sequence
BagOf(s) == [e \in Range(s) |-> Cardinality({k \in DOMAIN s : s[k] = e})]

\* ---- history: what the last public call did ------------------------------
\* rebalancing cases taken by Insert(node, i, data), bottom-up
RECURSIVE InsertCases(_, _, _)
InsertCases(node, i, data) ==
  IF node = nullptr THEN {}
  ELSE LET goLeft == i.low < node.interval.low
           child == IF goLeft THEN node.left ELSE node.right
           sub == Insert(child, i, data)
       IN IF sub = Segv THEN InsertCases(child, i, data)
          ELSE LET n1 == UpdateMax(IF goLeft THEN [node EXCEPT !.left = sub]
                                             ELSE [node EXCEPT !.right = sub])
               IN InsertCases(child, i, data) \cup ({RebalanceCase(n1, i)} \ {"none"})

\* how Remove(node, i) ends: "absent", "splice" or "successor"
RECURSIVE RemoveCase(_, _)
RemoveCase(node, i) ==
  IF node = nullptr THEN "absent"
  ELSE IF i.low < node.interval.low THEN RemoveCase(node.left, i)
       ELSE IF i.low > node.interval.low THEN RemoveCase(node.right, i)
            ELSE IF node.left = nullptr \/ node.right = nullptr THEN "splice"
                 ELSE "successor"


\* ---- public mutators, as functions of the object's state ------------------
This == [Root |-> Root, size |-> size, thrown |-> "none", fault |-> FALSE]

\* Insert without the low > high validation
PublicInsert_Unchecked(st, i, data) ==
  LET r == Insert(st.Root, i, data)
  IN IF r = Segv THEN [st EXCEPT !.fault = TRUE]
     ELSE [st EXCEPT !.Root = r, !.size = @ + 1]

\* void Insert(Interval<T> i, std::shared_ptr<T> data)
PublicInsert(st, i, data) ==
  IF i.low > i.high THEN [st EXCEPT !.thrown = "invalid_argument"]
  ELSE LET r == Insert(st.Root, i, data)
       IN IF r = Segv THEN [st EXCEPT !.fault = TRUE]
          ELSE [st EXCEPT !.Root = r, !.size = @ + 1]

\* void Remove(Interval<T> i)
PublicRemove(st, i) ==
  IF ContainsNode(st.Root, i.low)
  THEN [st EXCEPT !.Root = Remove(@, i), !.size = @ - 1]
  ELSE st

\* void Update(oldInterval, newInterval, newData)
PublicUpdate(st, oldInterval, newInterval, newData) ==
  PublicInsert(PublicRemove(st, oldInterval), newInterval, newData)

\* Clear dropping the nodes and leaving the counter as it is
PublicClear_KeepSize(st) == [st EXCEPT !.Root = nullptr]

\* void Clear()
PublicClear(st) == [st EXCEPT !.Root = nullptr, !.size = 0]

\* rotations a call of Insert performs, for the history variable
InsertEvents(root, i, data) ==
  IF i.low > i.high THEN {} ELSE InsertCases(root, i, data)

\* whether a call of Remove takes the two-children branch
RemoveEvents(root, i) ==
  IF ContainsNode(root, i.low) /\ RemoveCase(root, i) = "successor"
  THEN {"successor"} ELSE {}

\* ---- the state machine ----------------------------------------------------
\* what a call of Clear found, for the history variable: "drift" when the
\* counter and the number of nodes differed
ClearEvents(st) ==
  {"clear"} \cup (IF st.size # NodeCount(st.Root) THEN {"drift"} ELSE {})

\* the object the constructor builds
Fresh == [Root |-> nullptr, size |-> 0, thrown |-> "none", fault |-> FALSE]

Init ==
  /\ Root = nullptr
  /\ size = 0
  /\ thrown = "none"
  /\ fault = FALSE
  /\ last = {}

\* a call that reads through a null pointer ends the process (SIGSEGV): the
\* object is gone, which the single state Crashed stands for
Crashed == [Root |-> nullptr, size |-> 0, thrown |-> "none", fault |-> TRUE]

Commit(st, events) ==
  LET end == IF st.fault THEN Crashed ELSE st
  IN /\ Root' = end.Root
     /\ size' = end.size
     /\ thrown' = end.thrown
     /\ fault' = end.fault
     /\ last' = IF st.fault THEN {} ELSE events

\* the tree may grow only below MaxNodes nodes
MayInsert(st, i) == i.low > i.high \/ NodeCount(st.Root) < MaxNodes

\* the counter may fall behind the number of nodes by at most MaxDrift
MayRemove(st) == NodeCount(st.Root) - st.size <= MaxDrift

\* Insert(low, high, data) builds the interval and calls Insert(i, data)
InsertCall(low, high, data) ==
  /\ ~fault
  /\ MayInsert(This, Interval(low, high))
  /\ Commit(PublicInsert(This, Interval(low, high), data),
            InsertEvents(Root, Interval(low, high), data))

RemoveCall(i) ==
  LET st == PublicRemove(This, i)
  IN /\ ~fault
     /\ MayRemove(st)
     /\ Commit(st, RemoveEvents(Root, i))

UpdateCall(oldInterval, newInterval, newData) ==
  LET mid == PublicRemove(This, oldInterval)
  IN /\ ~fault
     /\ MayRemove(mid)
     /\ MayInsert(mid, newInterval)
     /\ Commit(PublicUpdate(This, oldInterval, newInterval, newData),
               RemoveEvents(Root, oldInterval)
                 \cup InsertEvents(mid.Root, newInterval, newData))

ClearCall ==
  /\ ~fault
  /\ Commit(PublicClear(This), ClearEvents(This))

Next ==
  \/ \E low \in Values, high \in Values, data \in Payloads : InsertCall(low, high, data)
  \/ \E i \in PointIntervals : RemoveCall(i)
  \/ \E o \in PointIntervals, n \in UpdateIntervals, data \in Payloads : UpdateCall(o, n, data)
  \/ ClearCall

Spec == Init /\ [][Next]_vars

\* ---- reference definitions, computed from the in-order listing -------------
Stored == Items(Root)

HighsOf(node) == {p[1].high : p \in Range(Items(node))}

LowsOf(node) == {p[1].low : p \in Range(Items(node))}

SubtreeMaxHigh(node) == CHOOSE m \in HighsOf(node) : \A h \in HighsOf(node) : h <= m

ContainsValue(p, v) == p[1].low <= v /\ v <= p[1].high

OverlapsRange(p, lo, hi) == p[1].low <= hi /\ p[1].high >= lo

\* s without its k-th entry
RemoveAt(s, k) == SubSeq(s, 1, k - 1) \o SubSeq(s, k + 1, Len(s))

Abs(x) == IF x < 0 THEN -x ELSE x

\* ---- Insert only, every low used once ---------------------------------------
MaxKey == 5
MaxKeyNodes == 6

Keys == 0 .. MaxKey

\* Insert(low, high, data) with a low no stored interval has
InsertDistinctCall(low, high, data) ==
  /\ ~fault
  /\ low <= high
  /\ low \notin LowsOf(Root)
  /\ NodeCount(Root) < MaxKeyNodes
  /\ Commit(PublicInsert(This, Interval(low, high), data),
            InsertEvents(Root, Interval(low, high), data))

NextDistinct ==
  \E low \in Keys, high \in Keys, data \in Payloads :
    high \in {low, MaxKey} /\ InsertDistinctCall(low, high, data)

SpecDistinct == Init /\ [][NextDistinct]_vars

\* ---- C1 -------------------------------------------------------------------
\* C1: after any sequence of Insert, Remove, Update and Clear calls, Size()
\* equals the number of nodes reachable from Root.
C1_SizeIsNodeCount == Size = NodeCount(Root)

\* ---- C2 -------------------------------------------------------------------
\* C2: every reachable node's max equals the maximum high over the node's own
\* interval and all intervals of its left and right subtrees.
C2_MaxIsSubtreeMaximum == \A n \in Subtrees(Root) : n.max = SubtreeMaxHigh(n)

\* a tree left by a call that took the two-children removal branch and then a
\* double rotation, in which the root's max comes from a descendant
C2_Witness ==
  /\ "successor" \in last
  /\ last \cap {"LR", "RL"} # {}
  /\ Root # nullptr
  /\ Root.max > Root.interval.high

\* ---- C3 -------------------------------------------------------------------
\* C3: for every node n, every interval in n's left subtree has low strictly
\* less than n.low and every interval in n's right subtree has low >= n.low.
C3_BstOrdering ==
  \A n \in Subtrees(Root) :
    /\ \A l \in LowsOf(n.left) : l < n.interval.low
    /\ \A l \in LowsOf(n.right) : l >= n.interval.low

\* ---- C4 -------------------------------------------------------------------
\* C4: after every Insert and every Remove, every reachable node satisfies
\* |height(left) - height(right)| <= 1.
C4_Balanced == \A n \in Subtrees(Root) : Abs(GetBalance(n)) <= 1

\* ---- C5 -------------------------------------------------------------------
\* C5: for any low > high, Insert(low, high, payload) raises invalid_argument
\* and leaves Root and Size() unchanged.
C5_InvalidInsertRejected ==
  [][\A low \in Values, high \in Values, data \in Payloads :
       (low > high /\ InsertCall(low, high, data))
         => (thrown' = "invalid_argument" /\ Root' = Root /\ size' = size)]_vars

\* the state after a rejected Insert on a tree of at least two nodes
C5_Witness == thrown = "invalid_argument" /\ NodeCount(Root) >= 2 /\ last = {}

\* ---- C6 -------------------------------------------------------------------
\* C6: when some stored node has low equal to i.low, Remove(i) decreases
\* Size() by exactly 1 and the multiset of stored pairs after the call is the
\* multiset before minus one pair whose low equals i.low.
C6_RemoveTakesExactlyOne ==
  [][\A i \in PointIntervals :
       (RemoveCall(i) /\ i.low \in LowsOf(Root))
         => /\ size' = size - 1
            /\ \E k \in DOMAIN Stored :
                 /\ Stored[k][1].low = i.low
                 /\ BagOf(Items(Root')) = BagOf(RemoveAt(Stored, k))]_vars

\* ---- C7 -------------------------------------------------------------------
\* C7: for any value v, Containing(v) returns exactly the stored (interval,
\* payload) pairs with low <= v <= high, each once, order ignored.
C7_ContainingIsExact ==
  \A v \in Values :
    BagOf(Containing(v)) = BagOf(SelectSeq(Stored, LAMBDA p : ContainsValue(p, v)))

\* a tree whose left subtree is pruned for one value while two stored
\* intervals contain it, and is searched and contributes for another value
C7_Witness ==
  /\ Root # nullptr
  /\ Root.left # nullptr
  /\ \E v \in Values : Root.left.max < v /\ Len(Containing(v)) >= 2
  /\ \E w \in Values : Root.left.max >= w /\ Len(FindContaining(Root.left, w)) >= 1

\* ---- C8 -------------------------------------------------------------------
\* C8: for any query range (lo, hi), Overlapping(lo, hi) returns exactly the
\* stored pairs with low <= hi and high >= lo, each once, order ignored; a
\* range covering every stored interval returns every stored entry.
C8_OverlappingIsExact ==
  /\ \A lo \in Values, hi \in Values :
       BagOf(Overlapping(lo, hi))
         = BagOf(SelectSeq(Stored, LAMBDA p : OverlapsRange(p, lo, hi)))
  /\ Len(Overlapping(0, MaxVal)) = NodeCount(Root)

\* a tree of at least three nodes whose left subtree is pruned for one range
\* that still has two matches, and contributes a match for another range
C8_Witness ==
  /\ NodeCount(Root) >= 3
  /\ Root.left # nullptr
  /\ \E lo \in Values, hi \in Values :
       lo <= hi /\ Root.left.max < lo /\ Len(Overlapping(lo, hi)) >= 2
  /\ \E lo \in Values, hi \in Values :
       lo <= hi /\ Root.left.max >= lo /\ Len(FindOverlapping(Root.left, lo, hi)) >= 1

\* ---- C9 -------------------------------------------------------------------
\* C9: for any value v, Contains(v) is true if and only if some stored
\* interval has low <= v <= high.
C9_ContainsIsExact ==
  \A v \in Values : Contains(v) <=> \E p \in Range(Stored) : ContainsValue(p, v)

\* the root does not contain v, the search returns the left subtree's answer
\* alone (left.max >= v) although the right subtree is not empty, and for
\* another value the answer is found in the right subtree only
C9_Witness ==
  /\ Root # nullptr
  /\ Root.left # nullptr
  /\ Root.right # nullptr
  /\ \E v \in Values :
       /\ ~ContainsValue(<<Root.interval, Root.data>>, v)
       /\ Root.left.max >= v
       /\ Contains(v)
  /\ \E w \in Values :
       /\ ~ContainsValue(<<Root.interval, Root.data>>, w)
       /\ Root.left.max < w
       /\ Contains(w)

\* ---- C10 ------------------------------------------------------------------
\* C10: for any query range (lo, hi), Overlaps(lo, hi) is true if and only if
\* some stored interval has low <= hi and high >= lo.
C10_OverlapsIsExact ==
  \A lo \in Values, hi \in Values :
    Overlaps(lo, hi) <=> \E p \in Range(Stored) : OverlapsRange(p, lo, hi)

\* the root does not overlap the range, the search returns the left subtree's
\* answer alone (left.max >= lo) although the right subtree is not empty, and
\* for another range the answer is found in the right subtree only
C10_Witness ==
  /\ Root # nullptr
  /\ Root.left # nullptr
  /\ Root.right # nullptr
  /\ \E lo \in Values, hi \in Values :
       /\ ~OverlapsRange(<<Root.interval, Root.data>>, lo, hi)
       /\ Root.left.max >= lo
       /\ Overlaps(lo, hi)
  /\ \E lo \in Values, hi \in Values :
       /\ ~OverlapsRange(<<Root.interval, Root.data>>, lo, hi)
       /\ Root.left.max < lo
       /\ Overlaps(lo, hi)

\* ---- C11 ------------------------------------------------------------------
\* C11: for any (min, max), FindByMinMax(min, max) returns every stored pair
\* with high >= min and low <= max, pairs held below the root included.
C11_FindByMinMaxIsExact ==
  \A min \in Values, max \in Values :
    BagOf(FindByMinMax(min, max))
      = BagOf(SelectSeq(Stored, LAMBDA p : p[1].high >= min /\ p[1].low <= max))

\* ---- C12 ------------------------------------------------------------------
\* the highs of the stored intervals that overlap [lo, hi]
OverlappingHighs(lo, hi) ==
  {Stored[k][1].high : k \in {j \in 1 .. Len(Stored) : OverlapsRange(Stored[j], lo, hi)}}

SetMax(s) == CHOOSE m \in s : \A x \in s : x <= m

\* C12 as stated: MaxHighOverlapping(lo, hi) is the greatest high among the
\* stored intervals overlapping [lo, hi], and it is the type's minimum value
\* exactly when no stored interval overlaps [lo, hi].
C12_SentinelExactlyWhenNoOverlap ==
  \A lo \in Values, hi \in Values :
    /\ OverlappingHighs(lo, hi) # {}
         => MaxHighOverlapping(lo, hi) = SetMax(OverlappingHighs(lo, hi))
    /\ MaxHighOverlapping(lo, hi) = TMin <=> OverlappingHighs(lo, hi) = {}

\* C12: MaxHighOverlapping(lo, hi) is the greatest high among the stored
\* intervals overlapping [lo, hi] when there is one, and the type's minimum
\* value when there is none (an overlapping interval whose high is the type's
\* minimum gives that same value).
C12_MaxHighOverlappingIsMaximum ==
  \A lo \in Values, hi \in Values :
    MaxHighOverlapping(lo, hi)
      = IF OverlappingHighs(lo, hi) = {} THEN TMin
        ELSE SetMax(OverlappingHighs(lo, hi))

\* a tree of height 3 where a query has several overlapping intervals below the
\* root, another query has none, and the left subtree is pruned for some query
C12_Witness ==
  /\ ~fault
  /\ Height(Root) >= 3
  /\ \E lo \in Values, hi \in Values :
       /\ Cardinality(OverlappingHighs(lo, hi)) >= 2
       /\ ~OverlapsRange(<<Root.interval, Root.data>>, lo, hi)
  /\ \E lo \in Values, hi \in Values : OverlappingHighs(lo, hi) = {}
  /\ \E lo \in Values : Root.left # nullptr /\ Root.left.max < lo

\* ---- C13 ------------------------------------------------------------------
\* the public mutators, as values: one call with its arguments
Calls ==
  [op : {"Insert"}, i : AllIntervals, n : {Interval(0, 0)}, data : Payloads]
    \cup [op : {"Remove"}, i : PointIntervals, n : {Interval(0, 0)}, data : {0}]
    \cup [op : {"Update"}, i : PointIntervals, n : UpdateIntervals, data : Payloads]
    \cup [op : {"Clear"}, i : {Interval(0, 0)}, n : {Interval(0, 0)}, data : {0}]

Apply(st, c) ==
  IF st.fault THEN st
  ELSE LET go == [st EXCEPT !.thrown = "none"]
       IN CASE c.op = "Insert" -> PublicInsert(go, c.i, c.data)
            [] c.op = "Remove" -> PublicRemove(go, c.i)
            [] c.op = "Update" -> PublicUpdate(go, c.i, c.n, c.data)
            [] c.op = "Clear"  -> PublicClear(go)

\* C13: from any reachable state, the counter and the node count diverged or
\* not, Clear leaves IsEmpty() true and Size() 0, the object is the one the
\* constructor builds, and calls made after it end as they do on a fresh tree.
C13_ClearGivesFreshTree ==
  [][ClearCall =>
       /\ IsEmpty' /\ Size' = 0
       /\ [Root |-> Root', size |-> size', thrown |-> "none", fault |-> FALSE] = Fresh
       /\ \A c \in Calls :
            Apply([Root |-> Root', size |-> size', thrown |-> "none",
                   fault |-> FALSE], c)
              = Apply(Fresh, c)]_vars

\* Clear was the last call, on a tree whose counter and node count differed
C13_Witness == last = {"clear", "drift"} /\ IsEmpty /\ Size = 0

\* ---- C14 ------------------------------------------------------------------
\* the intervals a text "[l, h] [l, h] ... " lists, in the order of the text
Listed(text) ==
  [k \in 1 .. (Len(text) \div 5) |->
     Interval(text[5 * (k - 1) + 2], text[5 * (k - 1) + 4])]

\* the intervals of the nodes reachable from node, each node once
RECURSIVE NodeIntervals(_)
NodeIntervals(node) ==
  IF node = nullptr THEN <<>>
  ELSE <<node.interval>> \o NodeIntervals(node.left) \o NodeIntervals(node.right)

\* the tree of the example: Insert (1,3), (5,8), (2,6), (15,20) in this order
ExampleTree ==
  Insert(Insert(Insert(Insert(nullptr, Interval(1, 3), 0), Interval(5, 8), 0),
                Interval(2, 6), 0), Interval(15, 20), 0)

\* C14: the text ToString produces lists every stored interval exactly once,
\* in non-decreasing order of low (equal lows may follow each other); the
\* example tree is listed as [1, 3] [2, 6] [5, 8] [15, 20].
C14_ToStringIsSorted ==
  /\ Len(ToString) = 5 * Len(NodeIntervals(Root))
  /\ BagOf(Listed(ToString)) = BagOf(NodeIntervals(Root))
  /\ \A k \in 1 .. Len(Listed(ToString)) - 1 :
       Listed(ToString)[k].low <= Listed(ToString)[k + 1].low
  /\ ToStringNode(ExampleTree)
       = <<"[", 1, ", ", 3, "] ", "[", 2, ", ", 6, "] ",
           "[", 5, ", ", 8, "] ", "[", 15, ", ", 20, "] ">>

\* a tree of height 3 holding two intervals of one low and two lows, reached by
\* a Remove that took the two-children branch
C14_Witness ==
  /\ ~fault
  /\ "successor" \in last
  /\ Height(Root) >= 3
  /\ Cardinality(LowsOf(Root)) >= 2
  /\ Cardinality(LowsOf(Root)) < Len(NodeIntervals(Root))

\* ---- C15 ------------------------------------------------------------------
\* positions of the stored pairs whose interval is i
PositionsOf(i) == {k \in DOMAIN Stored : Stored[k][1] = i}

\* number of stored pairs whose low is l
CountLow(l) == Cardinality({k \in DOMAIN Stored : Stored[k][1].low = l})

\* C15: when oldInterval is stored and no other stored interval has its low,
\* and newInterval is valid, Update(oldInterval, newInterval, newData) leaves
\* the stored multiset equal to the previous one with the pair of oldInterval
\* replaced by (newInterval, newData), and Size() unchanged.
C15_UpdateReplacesOnePair ==
  [][\A o \in PointIntervals, n \in UpdateIntervals, data \in Payloads :
       (/\ UpdateCall(o, n, data)
        /\ PositionsOf(o) # {}
        /\ CountLow(o.low) = 1
        /\ n.low <= n.high)
         => /\ size' = size
            /\ \A k \in PositionsOf(o) :
                 BagOf(Items(Root'))
                   = BagOf(Append(RemoveAt(Stored, k), <<n, data>>))]_vars

\* ---- C16 ------------------------------------------------------------------
\* C16: for any tree and any valid interval i, Insert(i, data) adds exactly
\* one node holding (i, data): Size() grows by 1 and the stored multiset is the
\* previous one plus that pair, whatever rotations the call performs.
C16_InsertAddsExactlyOne ==
  [][\A low \in Values, high \in Values, data \in Payloads :
       (InsertCall(low, high, data) /\ low <= high)
         => /\ size' = size + 1
            /\ BagOf(Items(Root'))
                 = BagOf(Append(Stored, <<Interval(low, high), data>>))]_vars

\* ---- C17 ------------------------------------------------------------------
\* C17: after Insert calls only, with valid intervals of pairwise distinct
\* lows, every call has completed and every node's subtree heights differ by
\* at most 1.
C17_DistinctLowsStayBalanced ==
  /\ ~fault
  /\ Cardinality(LowsOf(Root)) = NodeCount(Root)
  /\ \A n \in Subtrees(Root) : Abs(GetBalance(n)) <= 1

\* the last Insert made a double rotation in a tree of at least five nodes
C17_Witness ==
  /\ last \cap {"LR", "RL"} # {}
  /\ NodeCount(Root) >= 5
  /\ Height(Root) >= 3

\* ---- C18 ------------------------------------------------------------------
\* C18: in every reachable state, equal lows included, every rotation a call
\* of Insert performs promotes a child that exists: Insert reads through no
\* null pointer and completes.
C18_InsertNeverReadsNull ==
  [][\A low \in Values, high \in Values, data \in Payloads :
       (InsertCall(low, high, data) /\ low <= high)
         => /\ Insert(Root, Interval(low, high), data) # Segv
            /\ ~fault']_vars

\* ---- C19 ------------------------------------------------------------------
\* C19: when Update(oldInterval, newInterval, newData) throws because
\* newInterval.low > newInterval.high, the tree is as it was before the call:
\* oldInterval is still stored and Size() is unchanged.
C19_FailedUpdateChangesNothing ==
  [][\A o \in PointIntervals, n \in UpdateIntervals, data \in Payloads :
       (UpdateCall(o, n, data) /\ n.low > n.high)
         => /\ thrown' = "invalid_argument"
            /\ Root' = Root
            /\ size' = size]_vars

\* ---- C20 ------------------------------------------------------------------
\* C20: in every reachable state IsEmpty() is true exactly when Size() is 0,
\* and no call decrements Size() when it is 0.
C20_EmptyIffSizeZero ==
  [][/\ IsEmpty <=> Size = 0
     /\ IsEmpty' <=> Size' = 0
     /\ Size = 0 => Size' >= 0]_vars
====
